---- MODULE Spec2Model ----
(***************************************************************************)
(* Model of the KWeX conversational interview session orchestrator         *)
(* (backend/app/services/chat_survey_service.py and the chat-survey        *)
(* endpoints in backend/app/api/v1/endpoints/chat_surveys.py).             *)
(*                                                                         *)
(* One chat session is modelled.  The variables status, dimensions_covered,*)
(* messages, extracted_ratings, summary and completed_at are the committed *)
(* rows of that session; every endpoint call is one unit of work that is   *)
(* committed at its db.commit() or discarded when the call raises.         *)
(*                                                                         *)
(* Scores are integers on the 1-5 scale, confidences are in tenths         *)
(* (0.3 is 3, 0.8 is 8).                                                   *)
(*                                                                         *)
(* Spec     : the calls of one session run one after the other.            *)
(* SpecConc : SendMessage is split at its await on the generation service, *)
(*            so that a second SendMessage or an AbandonSession can run    *)
(*            while the first is suspended.  Rows written by a suspended   *)
(*            call become visible at its commit; a commit writes only the  *)
(*            attributes the call changed; a call that has flushed an      *)
(*            UPDATE of the session row holds that row until it commits.   *)
(* SpecConfirm : the calls made on a session that has just been handed off *)
(*            to rating confirmation; each confirm call is recorded with   *)
(*            its body (dimension, confirmed, adjusted_score).             *)
(* SpecTurns : the interview turns, each recorded with the dimensions      *)
(*            whose keywords occurred in its text.                         *)
(* SpecOutage : the calls of a session during which every request to the   *)
(*            generation service fails.                                    *)
(* SpecCrash : Spec, and calls that stop before their final commit.        *)
(* SpecLoop : the confirmation loop of a client, under weak fairness.      *)
(***************************************************************************)
EXTENDS Integers, Sequences, FiniteSets, TLC

VARIABLES status, dimensions_covered, messages, extracted_ratings, summary,
          completed_at, extractions, result, inflight

vars == <<status, dimensions_covered, messages, extracted_ratings, summary,
          completed_at, extractions, result, inflight>>

dbvars == <<status, dimensions_covered, messages, extracted_ratings, summary,
            completed_at>>

(***************************************************************************)
(* Bounds of the model.                                                    *)
(***************************************************************************)
MaxMessages == 19

MaxKeywordDims == 2

MaxAdjustDims == 1

MaxExtractions == 2

(***************************************************************************)
(* Enumerations and constants of the program.                              *)
(***************************************************************************)
FrictionType == <<"clarity", "tooling", "process", "rework", "delay", "safety">>

Dimensions == {FrictionType[i] : i \in DOMAIN FrictionType}

ChatSessionStatus == {"started", "in_progress", "rating_confirmation",
                      "completed", "abandoned"}

SurveyStatus == {"draft", "active", "closed"}

\* No row / None / a key absent from a dict.
NoSession == "none"

NoDim == "none"

NoKey == "<absent>"

NoScore == 0 - 1

NeutralScore == 3

NeutralConfidence == 3

DefaultConfidence == 8

MinAdjusted == 1

MaxAdjusted == 5

(***************************************************************************)
(* Pure helpers of the service.                                            *)
(***************************************************************************)
normalize_score(score) == ((score - 1) * 100) \div 4

\* Variant that keeps the last match of the scan instead of returning the
\* first.
detect_dimension_from_content_Last(K) ==
    IF K = {} THEN NoDim
    ELSE FrictionType[CHOOSE i \in DOMAIN FrictionType :
                        /\ FrictionType[i] \in K
                        /\ \A j \in (i + 1)..Len(FrictionType) :
                              FrictionType[j] \notin K]

\* The keyword table is scanned in declaration order; K is the set of
\* dimensions with a keyword in the combined assistant and user text.
detect_dimension_from_content(K) ==
    IF K = {} THEN NoDim
    ELSE FrictionType[CHOOSE i \in DOMAIN FrictionType :
                        /\ FrictionType[i] \in K
                        /\ \A j \in 1..(i - 1) : FrictionType[j] \notin K]

\* Variant without the except LLMError branch: the failure propagates.
generate_response_NoFallback(llm, covered) ==
    LET dimension == detect_dimension_from_content(llm.keywords)
    IN [raised |-> ~llm.ok,
        content |-> "generated",
        dimension |-> IF llm.ok THEN dimension ELSE NoDim,
        dimension_covered |-> llm.ok /\ dimension # NoDim
                              /\ dimension \notin covered]

\* llm = [ok |-> BOOLEAN, keywords |-> set of dimensions]
generate_response(llm, covered) ==
    IF llm.ok
    THEN LET dimension == detect_dimension_from_content(llm.keywords)
         IN [raised |-> FALSE,
             content |-> "generated",
             dimension |-> dimension,
             dimension_covered |-> dimension # NoDim /\ dimension \notin covered]
    ELSE [raised |-> FALSE,
          content |-> "fallback_reply",
          dimension |-> NoDim,
          dimension_covered |-> FALSE]

RatingData(d, s, c) == [dimension |-> d, score |-> s, confidence |-> c]

\* Variant that adds no neutral default.
NeutralFor_None(i, existing_dims) == <<>>

RECURSIVE NeutralFor(_, _)
NeutralFor(i, existing_dims) ==
    IF i > Len(FrictionType) THEN <<>>
    ELSE (IF FrictionType[i] \in existing_dims THEN <<>>
          ELSE <<RatingData(FrictionType[i], NeutralScore, NeutralConfidence)>>)
         \o NeutralFor(i + 1, existing_dims)

\* Variant that returns the service's list as it is.
extract_all_ratings_AsListed(resp) ==
    IF resp.kind = "error"
    THEN [raised |-> FALSE, ratings |-> NeutralFor(1, {})]
    ELSE IF resp.kind = "nonlist"
    THEN [raised |-> TRUE, ratings |-> <<>>]
    ELSE IF \E i \in DOMAIN resp.ratings : resp.ratings[i].dimension = NoKey
    THEN [raised |-> TRUE, ratings |-> <<>>]
    ELSE [raised |-> FALSE, ratings |-> resp.ratings]

\* resp = [kind |-> "error" | "list" | "nonlist", ratings |-> sequence]
\* Returns [raised |-> BOOLEAN, ratings |-> sequence of rating_data].
extract_all_ratings(resp) ==
    IF resp.kind = "error"
    THEN [raised |-> FALSE, ratings |-> NeutralFor(1, {})]
    ELSE IF resp.kind = "nonlist"
    THEN [raised |-> TRUE, ratings |-> <<>>]
    ELSE IF \E i \in DOMAIN resp.ratings : resp.ratings[i].dimension = NoKey
    THEN [raised |-> TRUE, ratings |-> <<>>]
    ELSE LET existing_dims == {resp.ratings[i].dimension : i \in DOMAIN resp.ratings}
         IN [raised |-> FALSE,
             ratings |-> resp.ratings \o NeutralFor(1, existing_dims)]

NewRating(rd) ==
    [dimension |-> rd.dimension,
     ai_inferred_score |-> rd.score,
     ai_confidence |-> IF rd.confidence = NoScore THEN DefaultConfidence
                       ELSE rd.confidence,
     user_confirmed |-> FALSE,
     user_adjusted_score |-> NoScore,
     final_score |-> normalize_score(rd.score)]

RECURSIVE StoreRatings(_)
StoreRatings(rds) ==
    IF rds = <<>> THEN <<>>
    ELSE (IF Head(rds).dimension \in Dimensions
          THEN <<NewRating(Head(rds))>> ELSE <<>>)
         \o StoreRatings(Tail(rds))

\* rating_data["score"] raises for a usable dimension without a score.
StoreRaises(rds) ==
    \E i \in DOMAIN rds : rds[i].dimension \in Dimensions /\ rds[i].score = NoScore

\* uq_session_dimension
UniqueViolation(rows) ==
    \E i, j \in DOMAIN rows : i # j /\ rows[i].dimension = rows[j].dimension

\* The Session factory of app/db/database.py: pending changes of the unit of
\* work are flushed before a query is run.
autoflush == TRUE

\* The rows a query sees: the unit of work's when it was flushed, the
\* committed ones otherwise.
QueryRows(committed, pending) == IF autoflush THEN pending ELSE committed

\* Variant that counts no row as unconfirmed.
Unconfirmed_None(rows) == {}

Unconfirmed(rows) == {i \in DOMAIN rows : ~rows[i].user_confirmed}

\* Variant ordered by ai_inferred_score instead of created_at.
get_next_unconfirmed_rating_ByScore(rows) ==
    IF Unconfirmed(rows) = {} THEN NoDim
    ELSE rows[CHOOSE i \in Unconfirmed(rows) :
                \A j \in Unconfirmed(rows) :
                   \/ rows[i].ai_inferred_score < rows[j].ai_inferred_score
                   \/ (/\ rows[i].ai_inferred_score = rows[j].ai_inferred_score
                       /\ i <= j)].dimension

\* Variant that takes the first row and tests user_confirmed afterwards.
get_next_unconfirmed_rating_FirstRow(rows) ==
    IF rows = <<>> \/ rows[1].user_confirmed THEN NoDim
    ELSE rows[1].dimension

\* First unconfirmed row in creation order, NoDim when there is none.
get_next_unconfirmed_rating(rows) ==
    IF Unconfirmed(rows) = {} THEN NoDim
    ELSE rows[CHOOSE i \in Unconfirmed(rows) :
                \A j \in Unconfirmed(rows) : i <= j].dimension

Message(role, seq) == [role |-> role, sequence |-> seq]

\* Variant with any() in place of all().
AllCovered_Any(covered) == covered # {}

AllCovered(covered) == covered = Dimensions

(***************************************************************************)
(* Inputs: what the collaborators may answer and what callers may send.    *)
(***************************************************************************)
Requests == {1, 2}

SurveyInputs == {"missing"} \cup SurveyStatus

KeywordInputs == {K \in SUBSET Dimensions : Cardinality(K) <= MaxKeywordDims}

ResponseInputs ==
    [ok : {TRUE}, keywords : KeywordInputs]
    \cup [ok : {FALSE}, keywords : {{}}]

ExtractionResponses ==
    { [kind |-> "error", ratings |-> <<>>],
      [kind |-> "nonlist", ratings |-> <<>>],
      [kind |-> "list", ratings |-> <<>>],
      [kind |-> "list", ratings |-> <<RatingData("safety", 5, 9),
                                      RatingData("clarity", 1, NoScore)>>],
      [kind |-> "list", ratings |-> <<RatingData("budget", 2, 9)>>],
      [kind |-> "list", ratings |-> <<RatingData("clarity", 2, 9),
                                      RatingData("clarity", 4, 9)>>],
      [kind |-> "list", ratings |-> <<RatingData(NoKey, 2, 9)>>],
      [kind |-> "list", ratings |-> <<RatingData("tooling", NoScore, 9)>>],
      [kind |-> "list", ratings |-> <<RatingData("rework", 7, 9)>>] }

AdjustDims == {FrictionType[i] : i \in 1..MaxAdjustDims}

AdjustedScoreInputs(dimension) ==
    IF dimension \in AdjustDims THEN {NoScore, 2, 6} ELSE {NoScore}

(***************************************************************************)
(* The outcome of the last call, as the caller sees it.                    *)
(***************************************************************************)
\* RatingConfirmation: the body of a confirm call.
Request(dimension, confirmed, adjusted_score) ==
    [dimension |-> dimension, confirmed |-> confirmed,
     adjusted_score |-> adjusted_score]

NoRequest == Request(NoDim, FALSE, NoScore)

Res(op, outcome) ==
    [op |-> op, outcome |-> outcome, content |-> "none", wrap_up |-> "none",
     extraction |-> "none", listed |-> {}, pending |-> NoDim,
     dimension |-> NoDim, all_confirmed |-> FALSE, llm_failed |-> {},
     request |-> NoRequest, keywords |-> {}, metrics |-> "none",
     metrics_calculated |-> FALSE, survey |-> "none"]

Idle == [active |-> FALSE, loaded_status |-> NoSession, status |-> NoSession,
         covered |-> {}, message_count |-> 0, holds_row |-> FALSE]

Init ==
    /\ status = NoSession
    /\ dimensions_covered = {}
    /\ messages = <<>>
    /\ extracted_ratings = <<>>
    /\ summary = "none"
    /\ completed_at = FALSE
    /\ extractions = 0
    /\ result = [op |-> "init", outcome |-> "ok", content |-> "none",
                 wrap_up |-> "none", extraction |-> "none", listed |-> {},
                 pending |-> NoDim, dimension |-> NoDim,
                 all_confirmed |-> FALSE, llm_failed |-> {},
                 request |-> NoRequest, keywords |-> {}, metrics |-> "none",
                 metrics_calculated |-> FALSE, survey |-> "none"]
    /\ inflight = [r \in Requests |-> Idle]

(***************************************************************************)
(* start_chat_survey / ChatSurveyService.start_session                     *)
(***************************************************************************)
\* except LLMError: the static opening message
generate_opening_message(llm_ok) ==
    [raised |-> FALSE,
     content |-> IF llm_ok THEN "generated" ELSE "canned_opening"]

\* Variant that only looks the survey up and skips the status check.
SurveyAccepting_AnyStatus(survey) == survey # "missing"

\* if not survey: raise ...; if survey.status != SurveyStatus.ACTIVE: raise ...
SurveyAccepting(survey) == survey # "missing" /\ survey = "active"

StartSession ==
    /\ status = NoSession
    /\ \E survey \in SurveyInputs, llm_ok \in BOOLEAN :
         IF ~SurveyAccepting(survey)
         THEN /\ result' = [Res("start", "rejected") EXCEPT !.survey = survey]
              /\ UNCHANGED <<dbvars, extractions, inflight>>
         ELSE IF generate_opening_message(llm_ok).raised
         THEN /\ result' = [Res("start", "server_error") EXCEPT
                              !.survey = survey,
                              !.llm_failed = IF llm_ok THEN {} ELSE {"opening"}]
              /\ UNCHANGED <<dbvars, extractions, inflight>>
         ELSE /\ status' = "started"
              /\ dimensions_covered' = {}
              /\ messages' = <<Message("assistant", 0)>>
              /\ result' = [Res("start", "ok") EXCEPT
                              !.survey = survey,
                              !.content = generate_opening_message(llm_ok).content,
                              !.llm_failed = IF llm_ok THEN {} ELSE {"opening"}]
              /\ UNCHANGED <<extracted_ratings, summary, completed_at,
                             extractions, inflight>>

(***************************************************************************)
(* send_chat_message / ChatSurveyService.process_user_message              *)
(***************************************************************************)
\* What the call holds after loading the session, promoting Started and
\* flushing the user message, up to its await on the generation service.
LoadSession ==
    [active |-> TRUE,
     loaded_status |-> status,
     status |-> IF status = "started" THEN "in_progress" ELSE status,
     covered |-> dimensions_covered,
     message_count |-> Len(messages),
     holds_row |-> status = "started"]

generate_wrap_up_message(llm_ok) ==
    [raised |-> FALSE,
     content |-> IF llm_ok THEN "generated" ELSE "wrap_up_fallback"]

\* Variant that does not add the assistant reply to the unit of work.
TurnMessages_UserOnly(message_count, handoff) ==
    <<Message("user", message_count)>>
    \o (IF handoff THEN <<Message("assistant", message_count)>> ELSE <<>>)

\* The messages a turn adds: the user message, the assistant reply and, at
\* the hand-off, the wrap-up message.
TurnMessages(message_count, handoff) ==
    <<Message("user", message_count),
      Message("assistant", message_count + 1)>>
    \o (IF handoff THEN <<Message("assistant", message_count)>> ELSE <<>>)

\* The rest of the call, from the reply of the generation service on.
\* session.messages was loaded for message_count and is not reloaded, so the
\* wrap-up message takes len(session.messages) as it was then.
Turn(ctx, llm, ext, wrap_ok) ==
    LET response_data == generate_response(llm, ctx.covered)
        dims == IF response_data.dimension_covered
                THEN ctx.covered \cup {response_data.dimension}
                ELSE ctx.covered
        handoff == AllCovered(dims) /\ ctx.status = "in_progress"
        ratings == extract_all_ratings(ext)
        stored == handoff /\ ~ratings.raised /\ ~StoreRaises(ratings.ratings)
    IN  [content |-> response_data.content,
         dimension |-> response_data.dimension,
         covered_dirty |-> response_data.dimension_covered,
         covered |-> dims,
         handoff |-> handoff,
         status |-> IF handoff THEN "rating_confirmation" ELSE ctx.status,
         raised |-> \/ response_data.raised
                    \/ handoff /\ ~stored
                    \/ stored /\ generate_wrap_up_message(wrap_ok).raised,
         llm_failed |-> (IF llm.ok THEN {} ELSE {"response"})
                        \cup (IF handoff /\ ext.kind = "error"
                              THEN {"extraction"} ELSE {})
                        \cup (IF stored /\ ~wrap_ok THEN {"wrap_up"} ELSE {}),
         new_ratings |-> IF handoff /\ ~ratings.raised
                         THEN StoreRatings(ratings.ratings) ELSE <<>>,
         new_messages |-> TurnMessages(ctx.message_count, handoff),
         wrap_up |-> IF stored THEN generate_wrap_up_message(wrap_ok).content
                     ELSE "none",
         extraction |-> IF handoff THEN ext.kind ELSE "none",
         listed |-> IF handoff /\ ext.kind = "list"
                    THEN {ext.ratings[i].dimension : i \in DOMAIN ext.ratings}
                    ELSE {},
         keywords |-> {}]

\* db.commit() of the call, or the rollback when it raised.
CommitTurn(ctx, t) ==
    IF t.raised \/ UniqueViolation(extracted_ratings \o t.new_ratings)
    THEN /\ result' = [Res("send", "server_error") EXCEPT
                         !.extraction = t.extraction, !.listed = t.listed,
                         !.llm_failed = t.llm_failed]
         /\ UNCHANGED dbvars
    ELSE /\ messages' = messages \o t.new_messages
         /\ extracted_ratings' = extracted_ratings \o t.new_ratings
         /\ status' = IF t.status # ctx.loaded_status THEN t.status ELSE status
         /\ dimensions_covered' = IF t.covered_dirty THEN t.covered
                                  ELSE dimensions_covered
         /\ result' = [Res("send", "ok") EXCEPT
                         !.content = t.content,
                         !.wrap_up = t.wrap_up,
                         !.extraction = t.extraction,
                         !.listed = t.listed,
                         !.dimension = t.dimension,
                         !.keywords = t.keywords,
                         !.llm_failed = t.llm_failed,
                         !.pending =
                            IF t.handoff
                            THEN get_next_unconfirmed_rating(
                                    QueryRows(extracted_ratings,
                                              extracted_ratings \o t.new_ratings))
                            ELSE NoDim]
         /\ UNCHANGED <<summary, completed_at>>

\* Variant without the status guard.
SendRejected_NoGuard ==
    IF status = NoSession THEN "not_found" ELSE "ok"

SendRejected ==
    IF status = NoSession THEN "not_found"
    ELSE IF status \in {"completed", "abandoned"} THEN "invalid_state"
    ELSE "ok"

\* The extraction and wrap-up calls are made only at the hand-off.
HandoffInputs(ctx, llm) ==
    IF Turn(ctx, llm, [kind |-> "error", ratings |-> <<>>], TRUE).handoff
    THEN ExtractionResponses \X BOOLEAN
    ELSE {<<[kind |-> "error", ratings |-> <<>>], TRUE>>}

\* One call; inputs are the answers the generation service may give, and
\* echo tells whether the recorded outcome keeps the dimensions whose keywords
\* occurred in the turn's text.
SendCall(inputs, echo) ==
    /\ Len(messages) + 3 <= MaxMessages
    /\ IF SendRejected # "ok"
       THEN /\ result' = Res("send", SendRejected)
            /\ UNCHANGED <<dbvars, extractions, inflight>>
       ELSE \E llm \in inputs :
              \E h \in HandoffInputs(LoadSession, llm) :
                LET t == [Turn(LoadSession, llm, h[1], h[2]) EXCEPT
                            !.keywords = IF echo THEN llm.keywords ELSE {}]
                IN  /\ t.handoff => extractions < MaxExtractions
                    /\ extractions' = IF t.handoff THEN extractions + 1
                                      ELSE extractions
                    /\ CommitTurn(LoadSession, t)
                    /\ UNCHANGED inflight

SendMessage == SendCall(ResponseInputs, FALSE)

(***************************************************************************)
(* abandon_chat_session                                                    *)
(***************************************************************************)
\* Variant without the check for a completed session.
AbandonRejected_NoGuard ==
    IF status = NoSession THEN "not_found" ELSE "ok"

AbandonRejected ==
    IF status = NoSession THEN "not_found"
    ELSE IF status = "completed" THEN "invalid_state"
    ELSE "ok"

AbandonSession ==
    /\ \A r \in Requests : ~inflight[r].holds_row
    /\ IF AbandonRejected # "ok"
       THEN /\ result' = Res("abandon", AbandonRejected)
            /\ UNCHANGED <<dbvars, extractions, inflight>>
       ELSE /\ status' = "abandoned"
            /\ result' = Res("abandon", "ok")
            /\ UNCHANGED <<dimensions_covered, messages, extracted_ratings,
                           summary, completed_at, extractions, inflight>>

(***************************************************************************)
(* confirm_rating (endpoint) / ChatSurveyService.confirm_rating            *)
(***************************************************************************)
\* RatingConfirmation.adjusted_score: Field(ge=1.0, le=5.0)
\* Variant with the lower bound only.
ValidAdjusted_NoUpperBound(adjusted_score) ==
    adjusted_score = NoScore \/ MinAdjusted <= adjusted_score

ValidAdjusted(adjusted_score) ==
    adjusted_score = NoScore
    \/ (MinAdjusted <= adjusted_score /\ adjusted_score <= MaxAdjusted)

\* Variant whose query leaves out the dimension filter.
RatingIndex_AnyDimension(rows, dimension) ==
    IF \E i \in DOMAIN rows : rows[i].dimension = dimension THEN 1 ELSE 0

\* .filter(session_id, dimension).first()
RatingIndex(rows, dimension) ==
    IF \E i \in DOMAIN rows : rows[i].dimension = dimension
    THEN CHOOSE i \in DOMAIN rows :
           /\ rows[i].dimension = dimension
           /\ \A j \in DOMAIN rows : rows[j].dimension = dimension => i <= j
    ELSE 0

\* Variant that leaves user_confirmed as it was.
UpdateRating_KeepsFlag(rating, confirmed, adjusted_score) ==
    IF ~confirmed /\ adjusted_score # NoScore
    THEN [rating EXCEPT !.user_adjusted_score = adjusted_score,
                        !.final_score = normalize_score(adjusted_score)]
    ELSE [rating EXCEPT !.final_score = normalize_score(rating.ai_inferred_score)]

\* Variant that normalizes the stored final_score instead of the inferred score.
UpdateRating_Renormalize(rating, confirmed, adjusted_score) ==
    IF ~confirmed /\ adjusted_score # NoScore
    THEN [rating EXCEPT !.user_confirmed = TRUE,
                        !.user_adjusted_score = adjusted_score,
                        !.final_score = normalize_score(adjusted_score)]
    ELSE [rating EXCEPT !.user_confirmed = TRUE,
                        !.final_score = normalize_score(rating.final_score)]

UpdateRating(rating, confirmed, adjusted_score) ==
    IF ~confirmed /\ adjusted_score # NoScore
    THEN [rating EXCEPT !.user_confirmed = TRUE,
                        !.user_adjusted_score = adjusted_score,
                        !.final_score = normalize_score(adjusted_score)]
    ELSE [rating EXCEPT !.user_confirmed = TRUE,
                        !.final_score = normalize_score(rating.ai_inferred_score)]

generate_rating_confirmation_message(llm_ok) ==
    [raised |-> FALSE,
     content |-> IF llm_ok THEN "generated" ELSE "confirmation_fallback"]

ConfirmRejected(dimension, adjusted_score) ==
    IF ~ValidAdjusted(adjusted_score) THEN "validation_error"
    ELSE IF status = NoSession THEN "not_found"
    ELSE IF status # "rating_confirmation" THEN "invalid_state"
    ELSE IF RatingIndex(extracted_ratings, dimension) = 0 THEN "rejected"
    ELSE "ok"

\* The prompt for the next rating is generated only when one remains.
PromptInputs(all_confirmed) ==
    IF all_confirmed THEN {TRUE} ELSE BOOLEAN

\* One call with the body (dimension, confirmed, adjusted_score); echo is
\* what the recorded outcome keeps of that body.
ConfirmCall(dimension, confirmed, adjusted_score, echo) ==
    IF ConfirmRejected(dimension, adjusted_score) # "ok"
    THEN /\ result' = [Res("confirm", ConfirmRejected(dimension, adjusted_score))
                         EXCEPT !.request = echo]
         /\ UNCHANGED <<dbvars, extractions, inflight>>
    ELSE LET i == RatingIndex(extracted_ratings, dimension)
             rows == [extracted_ratings EXCEPT
                        ![i] = UpdateRating(@, confirmed, adjusted_score)]
             next_rating == get_next_unconfirmed_rating(
                               QueryRows(extracted_ratings, rows))
             all_confirmed == next_rating = NoDim
         IN  /\ all_confirmed \/ Len(messages) < MaxMessages
             /\ extracted_ratings' = rows
             /\ messages' = IF all_confirmed THEN messages
                            ELSE Append(messages,
                                        Message("assistant", Len(messages)))
             /\ \E llm_ok \in PromptInputs(all_confirmed) :
                  result' = [Res("confirm", "ok") EXCEPT
                               !.request = echo,
                               !.pending = next_rating,
                               !.all_confirmed = all_confirmed,
                               !.content =
                                  IF all_confirmed THEN "none"
                                  ELSE generate_rating_confirmation_message(
                                          llm_ok).content]
             /\ UNCHANGED <<status, dimensions_covered, summary,
                            completed_at, extractions, inflight>>

ConfirmRating ==
    \E dimension \in Dimensions, confirmed \in BOOLEAN :
      \E adjusted_score \in AdjustedScoreInputs(dimension) :
        ConfirmCall(dimension, confirmed, adjusted_score, NoRequest)

(***************************************************************************)
(* complete_chat_session / ChatSurveyService.complete_session              *)
(***************************************************************************)
\* Variant without the except LLMError branch: the failure propagates.
generate_summary_NoStub(llm_ok) ==
    [raised |-> ~llm_ok, content |-> "generated"]

generate_summary(llm_ok) ==
    [raised |-> FALSE,
     content |-> IF llm_ok THEN "generated" ELSE "summary_stub"]

\* Variant of the endpoint without the branch for a completed session.
AlreadyCompleted_Never == FALSE

\* The endpoint returns the stored completion data of a completed session.
AlreadyCompleted == status = "completed"

\* chat_summaries.session_id is unique: a second summary row is refused.
SummaryExists == summary # "none"

\* Variant without the try/except around the hand-off: its failure propagates.
calculate_metrics_Propagates(metrics_ok) ==
    [raised |-> ~metrics_ok, metrics_calculated |-> metrics_ok,
     metrics |-> IF metrics_ok THEN "calculated" ELSE "raised"]

\* try: calculator.calculate_metrics(survey) ... except Exception: pass
calculate_metrics(metrics_ok) ==
    [raised |-> FALSE, metrics_calculated |-> metrics_ok,
     metrics |-> IF metrics_ok THEN "calculated" ELSE "raised"]

CompleteSession ==
    \E llm_ok \in BOOLEAN, metrics_ok \in BOOLEAN :
      IF status = NoSession
      THEN /\ result' = Res("complete", "not_found")
           /\ UNCHANGED <<dbvars, extractions, inflight>>
      ELSE IF AlreadyCompleted
      THEN /\ result' = [Res("complete", "ok") EXCEPT
                           !.content = summary, !.metrics_calculated = TRUE]
           /\ UNCHANGED <<dbvars, extractions, inflight>>
      ELSE IF Unconfirmed(extracted_ratings) # {}
      THEN /\ result' = Res("complete", "rejected")
           /\ UNCHANGED <<dbvars, extractions, inflight>>
      ELSE IF generate_summary(llm_ok).raised \/ SummaryExists
      THEN /\ result' = [Res("complete", "server_error") EXCEPT
                           !.llm_failed = IF llm_ok THEN {} ELSE {"summary"}]
           /\ UNCHANGED <<dbvars, extractions, inflight>>
      ELSE IF calculate_metrics(metrics_ok).raised
      THEN /\ result' = [Res("complete", "server_error") EXCEPT
                           !.llm_failed = IF llm_ok THEN {} ELSE {"summary"},
                           !.metrics = calculate_metrics(metrics_ok).metrics]
           /\ UNCHANGED <<dbvars, extractions, inflight>>
      ELSE /\ summary' = generate_summary(llm_ok).content
           /\ status' = "completed"
           /\ completed_at' = TRUE
           /\ result' = [Res("complete", "ok") EXCEPT
                           !.content = generate_summary(llm_ok).content,
                           !.llm_failed = IF llm_ok THEN {} ELSE {"summary"},
                           !.metrics = calculate_metrics(metrics_ok).metrics,
                           !.metrics_calculated =
                               calculate_metrics(metrics_ok).metrics_calculated]
           /\ UNCHANGED <<dimensions_covered, messages, extracted_ratings,
                          extractions, inflight>>

(***************************************************************************)
(* The calls of one session, one after the other.                          *)
(***************************************************************************)
Next ==
    \/ StartSession
    \/ SendMessage
    \/ ConfirmRating
    \/ CompleteSession
    \/ AbandonSession

Spec == Init /\ [][Next]_vars

(***************************************************************************)
(* SendMessage split at its await on the generation service.               *)
(***************************************************************************)
ActiveRequests == {r \in Requests : inflight[r].active}

\* Up to the await: the session is loaded, Started is promoted and the user
\* message is flushed.  The flush of a promoted status needs the session row.
SendBegin(r) ==
    /\ ~inflight[r].active
    /\ SendRejected = "ok"
    /\ Len(messages) + 3 * (Cardinality(ActiveRequests) + 1) <= MaxMessages
    /\ \A q \in Requests : ~inflight[q].holds_row
    /\ inflight' = [inflight EXCEPT ![r] = LoadSession]
    /\ UNCHANGED <<dbvars, extractions, result>>

\* From the reply of the generation service to db.commit().
SendFinish(r) ==
    /\ inflight[r].active
    /\ \E llm \in ResponseInputs :
         \E h \in HandoffInputs(inflight[r], llm) :
           LET t == Turn(inflight[r], llm, h[1], h[2])
           IN  /\ t.handoff => extractions < MaxExtractions
               /\ extractions' = IF t.handoff THEN extractions + 1
                                 ELSE extractions
               /\ CommitTurn(inflight[r], t)
               /\ inflight' = [inflight EXCEPT ![r] = Idle]

SendRefused ==
    /\ SendRejected # "ok"
    /\ result' = Res("send", SendRejected)
    /\ UNCHANGED <<dbvars, extractions, inflight>>

\* A session after four turns that credited clarity, tooling, process and
\* rework.
InitConc ==
    /\ status = "in_progress"
    /\ dimensions_covered = {"clarity", "tooling", "process", "rework"}
    /\ messages = [i \in 1..9 |->
                     Message(IF i % 2 = 0 THEN "user" ELSE "assistant", i - 1)]
    /\ extracted_ratings = <<>>
    /\ summary = "none"
    /\ completed_at = FALSE
    /\ extractions = 0
    /\ result = [op |-> "init", outcome |-> "ok", content |-> "none",
                 wrap_up |-> "none", extraction |-> "none", listed |-> {},
                 pending |-> NoDim, dimension |-> NoDim,
                 all_confirmed |-> FALSE, llm_failed |-> {},
                 request |-> NoRequest, keywords |-> {}, metrics |-> "none",
                 metrics_calculated |-> FALSE, survey |-> "none"]
    /\ inflight = [r \in Requests |-> Idle]

NextConc ==
    \/ \E r \in Requests : SendBegin(r)
    \/ \E r \in Requests : SendFinish(r)
    \/ SendRefused
    \/ AbandonSession

SpecConc == InitConc /\ [][NextConc]_vars

(***************************************************************************)
(* The confirmation phase: the calls made on a session that has just been  *)
(* handed off, each confirm call recorded with its body.                   *)
(***************************************************************************)
\* The extraction answers with which the hand-off turn commits.
StoredExtractions ==
    {resp \in ExtractionResponses :
        /\ ~extract_all_ratings(resp).raised
        /\ ~StoreRaises(extract_all_ratings(resp).ratings)
        /\ ~UniqueViolation(StoreRatings(extract_all_ratings(resp).ratings))}

\* StartSession and six turns that credited one dimension each, safety last.
InitConfirm ==
    /\ status = "rating_confirmation"
    /\ dimensions_covered = Dimensions
    /\ messages = [i \in 1..13 |->
                     Message(IF i % 2 = 0 THEN "user" ELSE "assistant", i - 1)]
                  \o <<Message("assistant", 11)>>
    /\ \E resp \in StoredExtractions :
         /\ extracted_ratings = StoreRatings(extract_all_ratings(resp).ratings)
         /\ result = [Res("send", "ok") EXCEPT
                        !.content = "generated",
                        !.wrap_up = "generated",
                        !.extraction = resp.kind,
                        !.listed = IF resp.kind = "list"
                                   THEN {resp.ratings[i].dimension :
                                            i \in DOMAIN resp.ratings}
                                   ELSE {},
                        !.dimension = "safety",
                        !.llm_failed = IF resp.kind = "error"
                                       THEN {"extraction"} ELSE {},
                        !.pending = get_next_unconfirmed_rating(
                                       StoreRatings(
                                          extract_all_ratings(resp).ratings))]
    /\ summary = "none"
    /\ completed_at = FALSE
    /\ extractions = 1
    /\ inflight = [r \in Requests |-> Idle]

ConfirmRatingEcho ==
    \E dimension \in Dimensions, confirmed \in BOOLEAN :
      \E adjusted_score \in AdjustedScoreInputs(dimension) :
        ConfirmCall(dimension, confirmed, adjusted_score,
                    Request(dimension, confirmed, adjusted_score))

NextConfirm ==
    \/ ConfirmRatingEcho
    \/ CompleteSession
    \/ AbandonSession

SpecConfirm == InitConfirm /\ [][NextConfirm]_vars

(***************************************************************************)
(* The turns of a session, each recorded with the dimensions whose         *)
(* keywords occurred in its text, also when the reply is the fallback.     *)
(***************************************************************************)
TurnInputs == [ok : BOOLEAN, keywords : KeywordInputs]

SendMessageEcho == SendCall(TurnInputs, TRUE)

NextTurns ==
    \/ StartSession
    \/ SendMessageEcho
    \/ AbandonSession

SpecTurns == Init /\ [][NextTurns]_vars

(***************************************************************************)
(* A session during which the generation service is unavailable: every     *)
(* call made to it raises an LLMError.                                     *)
(***************************************************************************)
\* The outcome of a call all of whose generation requests failed.
Unavailable(res) ==
    /\ (res.op = "start" /\ res.outcome = "ok") => "opening" \in res.llm_failed
    /\ (res.op = "send" /\ res.outcome \in {"ok", "server_error"}) =>
         /\ "response" \in res.llm_failed
         /\ res.extraction \in {"none", "error"}
         /\ res.wrap_up # "generated"
    /\ res.op = "confirm" => res.content # "generated"
    /\ res.op = "complete" => res.content # "generated"

NextOutage ==
    \/ StartSession /\ Unavailable(result')
    \/ SendMessage /\ Unavailable(result')
    \/ ConfirmRating /\ Unavailable(result')
    \/ CompleteSession /\ Unavailable(result')
    \/ AbandonSession

SpecOutage == Init /\ [][NextOutage]_vars

(***************************************************************************)
(* The confirmation loop of a client: after the hand-off it confirms or    *)
(* adjusts the rating it was told is pending, until it is told that all    *)
(* are confirmed, and then completes the session.                          *)
(***************************************************************************)
ConfirmReported ==
    /\ result.op \in {"send", "confirm"}
    /\ result.outcome = "ok"
    /\ result.pending # NoDim
    /\ \E confirmed \in BOOLEAN :
         \E adjusted_score \in {a \in AdjustedScoreInputs(result.pending) :
                                   ValidAdjusted(a)} :
           ConfirmCall(result.pending, confirmed, adjusted_score,
                       Request(result.pending, confirmed, adjusted_score))

CompleteConfirmed ==
    /\ result.op = "confirm"
    /\ result.outcome = "ok"
    /\ result.all_confirmed
    /\ CompleteSession

NextLoop ==
    \/ ConfirmReported
    \/ CompleteConfirmed

\* The client keeps calling and every call runs to its end.
SpecLoop == InitConfirm /\ [][NextLoop]_vars /\ WF_vars(NextLoop)

(***************************************************************************)
(* Calls that stop before their final db.commit(): the process dies, or an *)
(* exception leaves the handler.                                           *)
(***************************************************************************)
\* The committed rows of the session.
Db ==
    [status |-> status, dimensions_covered |-> dimensions_covered,
     messages |-> messages, extracted_ratings |-> extracted_ratings,
     summary |-> summary, completed_at |-> completed_at]

\* The persistence collaborator's unit of work: what a request has not
\* committed when it ends is discarded with its session.
UnitOfWorkDiscarded == TRUE

\* Variant in which db.flush() ends the transaction.
Committed_AtFlush(op, point, metrics_ok) ==
    \/ op = "send" /\ point = "after_flush"
    \/ op = "complete" /\ point = "after_metrics" /\ metrics_ok

\* Whether a commit has run when the call stops at point.  The only commit
\* before the final one is the calculator's own, on the session it shares with
\* the call, which it reaches when the calculation did not raise.
Committed(op, point, metrics_ok) ==
    op = "complete" /\ point = "after_metrics" /\ metrics_ok

\* The call stops at point with the unit of work `work`.
Interrupted(op, point, metrics_ok, work) ==
    LET db == IF Committed(op, point, metrics_ok) \/ ~UnitOfWorkDiscarded
              THEN work ELSE Db
    IN  /\ status' = db.status
        /\ dimensions_covered' = db.dimensions_covered
        /\ messages' = db.messages
        /\ extracted_ratings' = db.extracted_ratings
        /\ summary' = db.summary
        /\ completed_at' = db.completed_at
        /\ result' = [Res(op, "crashed") EXCEPT
                        !.metrics = IF op = "complete" /\ point = "after_metrics"
                                    THEN calculate_metrics(metrics_ok).metrics
                                    ELSE "none"]
        /\ UNCHANGED <<extractions, inflight>>

\* process_user_message stopped after the flush of the user message, or after
\* the reply was added and the coverage updated.
SendCrash ==
    /\ SendRejected = "ok"
    /\ Len(messages) + 3 <= MaxMessages
    /\ LET flushed == [Db EXCEPT
                         !.status = LoadSession.status,
                         !.messages = Append(messages,
                                             Message("user", Len(messages)))]
       IN  \/ Interrupted("send", "after_flush", FALSE, flushed)
           \/ \E llm \in ResponseInputs :
                LET t == Turn(LoadSession, llm,
                              [kind |-> "error", ratings |-> <<>>], TRUE)
                IN  Interrupted("send", "after_reply", FALSE,
                       [flushed EXCEPT
                          !.messages = Append(@, Message("assistant",
                                                         Len(messages) + 1)),
                          !.dimensions_covered =
                             IF t.covered_dirty THEN t.covered ELSE @])

\* confirm_rating stopped after the rating was updated.
ConfirmCrash ==
    \E dimension \in Dimensions, confirmed \in BOOLEAN :
      \E adjusted_score \in AdjustedScoreInputs(dimension) :
        /\ ConfirmRejected(dimension, adjusted_score) = "ok"
        /\ Interrupted("confirm", "after_update", FALSE,
              [Db EXCEPT
                 !.extracted_ratings =
                    [@ EXCEPT ![RatingIndex(extracted_ratings, dimension)] =
                        UpdateRating(@, confirmed, adjusted_score)]])

\* complete_session stopped after the summary was added, or between the
\* return of the metrics hand-off and the final db.commit().
CompleteCrash ==
    /\ status # NoSession
    /\ ~AlreadyCompleted
    /\ Unconfirmed(extracted_ratings) = {}
    /\ ~SummaryExists
    /\ \E llm_ok \in BOOLEAN, metrics_ok \in BOOLEAN :
         LET summarized == [Db EXCEPT
                              !.summary = generate_summary(llm_ok).content]
         IN  \/ Interrupted("complete", "after_summary", metrics_ok,
                            summarized)
             \/ Interrupted("complete", "after_metrics", metrics_ok,
                            [summarized EXCEPT !.status = "completed",
                                               !.completed_at = TRUE])

NextCrash ==
    \/ StartSession
    \/ SendMessage
    \/ ConfirmRating
    \/ CompleteSession
    \/ AbandonSession
    \/ SendCrash
    \/ ConfirmCrash
    \/ CompleteCrash

SpecCrash == Init /\ [][NextCrash]_vars

(***************************************************************************)
(* Properties.                                                             *)
(***************************************************************************)
RatingsOf(dimension) ==
    {i \in DOMAIN extracted_ratings :
       extracted_ratings[i].dimension = dimension}

LegalEdges ==
    { <<NoSession, "started">>,
      <<"started", "in_progress">>,
      <<"in_progress", "rating_confirmation">>,
      <<"rating_confirmation", "completed">>,
      <<"started", "abandoned">>,
      <<"in_progress", "abandoned">>,
      <<"rating_confirmation", "abandoned">> }

\* C1: every change of the session's status follows one of the edges
\* Started->InProgress, InProgress->RatingConfirmation,
\* RatingConfirmation->Completed or non-terminal->Abandoned; in particular a
\* session becomes Completed only from RatingConfirmation.
C1_LegalEdges ==
    [][status' # status => <<status, status'>> \in LegalEdges]_vars

\* C2: a Completed session has no rating with user_confirmed = false.
C2_CompletedConfirmed ==
    status = "completed" =>
        \A i \in DOMAIN extracted_ratings : extracted_ratings[i].user_confirmed

C2_Witness ==
    /\ status = "completed"
    /\ Len(extracted_ratings) = Cardinality(Dimensions)
    /\ result.op = "complete"

C4_Gapless ==
    \A i \in DOMAIN messages : messages[i].sequence = i - 1

UserSequencesDistinct(msgs) ==
    \A i, j \in DOMAIN msgs :
        (i # j /\ msgs[i].role = "user" /\ msgs[j].role = "user")
            => msgs[i].sequence # msgs[j].sequence

\* C5: two concurrent SendMessage calls on one session act as in some serial
\* order: the user messages of different calls never get the same sequence
\* number, and no extraction is run once the session has its ratings.
C5_Serialized ==
    [][/\ UserSequencesDistinct(messages')
       /\ extracted_ratings # <<>> => extractions' = extractions]_vars

\* C6: when a suspended SendMessage resumes on a session that was abandoned
\* in the meantime, the session stays Abandoned and gets no ratings.
C6_AbandonedStays ==
    [][(/\ status = "abandoned"
        /\ \E r \in Requests : inflight[r].active /\ ~inflight'[r].active)
       => (status' = "abandoned" /\ extracted_ratings' = extracted_ratings)]_vars

\* C7: SendMessage and ConfirmRating on a Completed or Abandoned session are
\* rejected with an invalid-session-state error and change nothing.  (A
\* ConfirmRating body that fails schema validation never reaches the handler
\* and is rejected as such, also without any change.)
C7_TerminalRejects ==
    [][(/\ status \in {"completed", "abandoned"}
        /\ result'.op \in {"send", "confirm"})
       => /\ result'.outcome \in {"invalid_state", "validation_error"}
          /\ result'.op = "send" => result'.outcome = "invalid_state"
          /\ UNCHANGED dbvars]_vars

C7_Witness ==
    /\ status = "abandoned"
    /\ extracted_ratings # <<>>
    /\ result.op = "confirm"
    /\ result.outcome = "invalid_state"

\* C8: when the opening, reply or summary call to the generation service
\* fails during StartSession, SendMessage or CompleteSession, the call still
\* succeeds and stores its fixed fallback (canned opening, generic follow-up
\* reply, stub summary).
C8_FailureAbsorbed ==
    (result.llm_failed \cap {"opening", "response", "summary"} # {})
    => /\ result.outcome = "ok"
       /\ "opening" \in result.llm_failed =>
            (result.op = "start" /\ result.content = "canned_opening")
       /\ "response" \in result.llm_failed =>
            (result.op = "send" /\ result.content = "fallback_reply")
       /\ "summary" \in result.llm_failed =>
            (/\ result.op = "complete"
             /\ result.content = "summary_stub"
             /\ summary = "summary_stub")

C8_Witness ==
    /\ result.op = "send"
    /\ result.llm_failed = {"response"}
    /\ result.outcome = "ok"
    /\ result.content = "fallback_reply"

IsNeutral(dimension) ==
    \E i \in RatingsOf(dimension) :
        /\ extracted_ratings[i].ai_inferred_score = NeutralScore
        /\ extracted_ratings[i].ai_confidence = NeutralConfidence

ScoreUsed(rating) ==
    IF rating.user_adjusted_score # NoScore THEN rating.user_adjusted_score
    ELSE rating.ai_inferred_score

\* C10: every rating has final_score = (score_used - 1) / 4 * 100, where
\* score_used is the stored user_adjusted_score if there is one and the
\* ai_inferred_score otherwise.
C10_FinalScore ==
    \A i \in DOMAIN extracted_ratings :
        extracted_ratings[i].final_score * 4
            = (ScoreUsed(extracted_ratings[i]) - 1) * 100

\* C11: CompleteSession on a session with an unconfirmed rating is rejected,
\* keeps the status and stores no summary; with every rating confirmed it
\* succeeds, the session is Completed with its completion timestamp, and the
\* stored summary is the stub when the summary call failed.
C11_CompleteGate ==
    [][(result'.op = "complete" /\ status # NoSession) =>
         IF Unconfirmed(extracted_ratings) # {}
         THEN /\ result'.outcome = "rejected"
              /\ status' = status
              /\ summary' = summary
              /\ summary = "none"
         ELSE /\ result'.outcome = "ok"
              /\ status' = "completed"
              /\ completed_at'
              /\ summary' # "none"
              /\ "summary" \in result'.llm_failed => summary' = "summary_stub"]_vars

C11_Witness ==
    /\ result.op = "complete"
    /\ result.llm_failed = {"summary"}
    /\ status = "completed"
    /\ completed_at
    /\ summary = "summary_stub"
    /\ Len(extracted_ratings) = Cardinality(Dimensions)

\* C12: a dimension's coverage flag, once true, is true in every later state:
\* no call resets it.
C12_CoverageMonotone ==
    [][dimensions_covered \subseteq dimensions_covered']_vars

\* C13: rating extraction runs once per session, in the turn that moves the
\* session from InProgress to RatingConfirmation: it is never run a second
\* time, and a session that has ratings got them from that one run.
C13_ExtractsOnce ==
    /\ extractions <= 1
    /\ extracted_ratings # <<>> =>
         (extractions = 1 /\ Len(extracted_ratings) = Cardinality(Dimensions))

ConfirmStep == result'.op = "confirm"

UnconfirmedDims(rows) == {rows[i].dimension : i \in Unconfirmed(rows)}

\* C14: a ConfirmRating call that repeats the call before it (same dimension,
\* confirmed flag and adjusted score) on the rating that call confirmed
\* succeeds, adds no rating row and leaves every rating, in particular its
\* user_confirmed, user_adjusted_score and final_score, as the first call
\* left it.
C14_ReconfirmIdempotent ==
    [][(/\ ConfirmStep
        /\ result.op = "confirm"
        /\ result.outcome = "ok"
        /\ result'.request = result.request)
       => /\ result'.outcome = "ok"
          /\ extracted_ratings' = extracted_ratings]_vars

C14_Witness ==
    /\ result.op = "confirm"
    /\ result.outcome = "ok"
    /\ result.request = Request("clarity", FALSE, 2)
    /\ Cardinality(Unconfirmed(extracted_ratings)) = Cardinality(Dimensions) - 1
    /\ Len(messages) = 16
    /\ \E i \in RatingsOf("clarity") :
          /\ extracted_ratings[i].user_confirmed
          /\ extracted_ratings[i].user_adjusted_score = 2
          /\ extracted_ratings[i].final_score = 25

\* C15: ConfirmRating is rejected unless the session has a rating for the
\* dimension that is still unconfirmed, and a rejected call changes no rating.
C15_NeedsUnconfirmed ==
    [][ConfirmStep =>
         /\ result'.outcome = "ok" =>
               result'.request.dimension \in UnconfirmedDims(extracted_ratings)
         /\ result'.outcome # "ok" => extracted_ratings' = extracted_ratings]_vars

\* C16: ConfirmRating with an adjusted score outside [1, 5] is rejected with a
\* validation error and changes nothing: the rating keeps its user_confirmed,
\* user_adjusted_score and final_score.
C16_AdjustedRange ==
    [][(/\ ConfirmStep
        /\ result'.request.adjusted_score # NoScore
        /\ (result'.request.adjusted_score < 1
             \/ result'.request.adjusted_score > 5))
       => /\ result'.outcome = "validation_error"
          /\ UNCHANGED dbvars]_vars

C16_Witness ==
    /\ result.op = "confirm"
    /\ result.outcome = "validation_error"
    /\ result.request = Request("clarity", FALSE, 6)
    /\ status = "rating_confirmation"
    /\ "clarity" \in UnconfirmedDims(extracted_ratings)

\* C17: ConfirmRating never changes the session's status; its all_confirmed
\* is true exactly when no unconfirmed rating remains after the call, and the
\* call that confirms the last one reports no next dimension and leaves the
\* session in RatingConfirmation.
C17_ConfirmKeepsStatus ==
    [][ConfirmStep =>
         /\ status' = status
         /\ result'.outcome = "ok" =>
               /\ result'.all_confirmed <=> Unconfirmed(extracted_ratings') = {}
               /\ result'.all_confirmed =>
                     (result'.pending = NoDim /\ status' = "rating_confirmation")]_vars

C17_Witness ==
    /\ result.op = "confirm"
    /\ result.outcome = "ok"
    /\ result.all_confirmed
    /\ result.pending = NoDim
    /\ status = "rating_confirmation"
    /\ Len(extracted_ratings) = Cardinality(Dimensions)
    /\ Unconfirmed(extracted_ratings) = {}

\* C18: the rating presented next, by the hand-off turn of SendMessage and by
\* ConfirmRating, is the unconfirmed rating created earliest, whatever its
\* score and confidence, and is none exactly when no rating is unconfirmed.
C18_EarliestUnconfirmed ==
    (\/ result.op = "send" /\ result.outcome = "ok" /\ result.extraction # "none"
     \/ result.op = "confirm" /\ result.outcome = "ok")
    => IF \A i \in DOMAIN extracted_ratings : extracted_ratings[i].user_confirmed
       THEN result.pending = NoDim
       ELSE \E i \in DOMAIN extracted_ratings :
              /\ ~extracted_ratings[i].user_confirmed
              /\ extracted_ratings[i].dimension = result.pending
              /\ \A j \in 1..(i - 1) : extracted_ratings[j].user_confirmed

C18_Witness ==
    /\ result.op = "send"
    /\ result.outcome = "ok"
    /\ result.extraction = "list"
    /\ result.pending = "safety"
    /\ Len(extracted_ratings) = Cardinality(Dimensions)
    /\ extracted_ratings[1].dimension = "safety"
    /\ extracted_ratings[1].ai_inferred_score = 5
    /\ extracted_ratings[2].dimension = "clarity"
    /\ extracted_ratings[2].ai_inferred_score = 1

Roles(msgs) == [i \in DOMAIN msgs |-> msgs[i].role]

Appended(n) == SubSeq(messages', Len(messages) + 1, Len(messages) + n)

SendAccepted == result'.op = "send" /\ result'.outcome = "ok"

\* C19 as claimed: every accepted SendMessage call appends exactly two
\* messages, the user message and then one assistant message.
C19_TwoPerTurn ==
    [][SendAccepted =>
         /\ Len(messages') = Len(messages) + 2
         /\ Roles(Appended(2)) = <<"user", "assistant">>]_vars

\* C19 as amended: every accepted SendMessage call appends the user message
\* and then one assistant reply; the turn that hands the session off to
\* RatingConfirmation appends a wrap-up assistant message after them, three
\* messages in all, and every other accepted turn exactly two.  Messages
\* already stored are kept, and a call that is not accepted appends none.
C19_TwoPlusWrapUp ==
    [][result'.op = "send" =>
         IF result'.outcome = "ok"
         THEN /\ SubSeq(messages', 1, Len(messages)) = messages
              /\ IF status' = "rating_confirmation" /\ status # status'
                 THEN /\ Len(messages') = Len(messages) + 3
                      /\ Roles(Appended(3)) = <<"user", "assistant", "assistant">>
                 ELSE /\ Len(messages') = Len(messages) + 2
                      /\ Roles(Appended(2)) = <<"user", "assistant">>
         ELSE messages' = messages]_vars

C19_Witness ==
    /\ result.op = "send"
    /\ result.outcome = "ok"
    /\ result.wrap_up # "none"
    /\ status = "rating_confirmation"
    /\ Len(messages) = 14
    /\ Roles(SubSeq(messages, 12, 14)) = <<"user", "assistant", "assistant">>

\* C20: the turn that credits the last uncovered dimension ends with the
\* session in RatingConfirmation, exactly six rating rows and a pending
\* confirmation in its result; before that turn the session is InProgress and
\* the result carries no pending confirmation, and no earlier turn hands off.
C20_HandoffInSameTurn ==
    [][/\ (dimensions_covered # Dimensions /\ dimensions_covered' = Dimensions) =>
            /\ status = "in_progress"
            /\ result.pending = NoDim
            /\ result'.op = "send"
            /\ status' = "rating_confirmation"
            /\ Len(extracted_ratings') = Cardinality(Dimensions)
            /\ result'.pending # NoDim
       /\ (status # "rating_confirmation" /\ status' = "rating_confirmation") =>
            (dimensions_covered # Dimensions /\ dimensions_covered' = Dimensions)
       /\ dimensions_covered' # Dimensions => result'.pending = NoDim]_vars

C20_Witness ==
    /\ result.op = "send"
    /\ result.outcome = "ok"
    /\ result.dimension = "safety"
    /\ result.pending = "clarity"
    /\ status = "rating_confirmation"
    /\ dimensions_covered = Dimensions
    /\ Len(extracted_ratings) = Cardinality(Dimensions)
    /\ Len(messages) = 14

\* C21: when the generation service fails on every call of a session,
\* StartSession on an active survey, every SendMessage on the running session
\* and CompleteSession succeed with the fallback content, and the session
\* ends (Completed) with one rating per dimension, each 3.0 with confidence
\* 0.3.
C21_OutageSession ==
    /\ (result.op = "send" /\ status \in {"in_progress", "rating_confirmation"}) =>
         (result.outcome = "ok" /\ result.content = "fallback_reply")
    /\ (result.op = "complete" /\ result.outcome = "ok") =>
         result.content = "summary_stub"
    /\ status = "completed" =>
         /\ Len(extracted_ratings) = Cardinality(Dimensions)
         /\ \A d \in Dimensions : IsNeutral(d)

AbandonStep == result'.op = "abandon" /\ status # NoSession

\* C22 as claimed: AbandonSession moves a Started, InProgress or
\* RatingConfirmation session to Abandoned, and on a session that is already
\* Completed or Abandoned it returns success and changes nothing.
C22_AbandonIdempotent ==
    [][AbandonStep =>
         /\ result'.outcome = "ok"
         /\ status' = IF status \in {"completed", "abandoned"} THEN status
                      ELSE "abandoned"
         /\ UNCHANGED <<dimensions_covered, messages, extracted_ratings,
                        summary, completed_at>>]_vars

\* C22 as amended: AbandonSession moves a Started, InProgress or
\* RatingConfirmation session to Abandoned; on an Abandoned session it returns
\* success and changes nothing; on a Completed session it is rejected with an
\* invalid-state error and changes nothing.
C22_AbandonUnlessCompleted ==
    [][AbandonStep =>
         /\ IF status = "completed"
            THEN result'.outcome = "invalid_state" /\ status' = status
            ELSE result'.outcome = "ok" /\ status' = "abandoned"
         /\ UNCHANGED <<dimensions_covered, messages, extracted_ratings,
                        summary, completed_at>>]_vars

C22_Witness ==
    /\ result.op = "abandon"
    /\ result.outcome = "invalid_state"
    /\ status = "completed"
    /\ summary # "none"
    /\ Len(extracted_ratings) = Cardinality(Dimensions)

\* C23: Abandoned is terminal: once the session is Abandoned no call changes
\* its status, adds or changes a rating, or creates a summary.
C23_AbandonedTerminal ==
    [][status = "abandoned" =>
         /\ status' = "abandoned"
         /\ extracted_ratings' = extracted_ratings
         /\ summary' = summary]_vars

\* C24: a session has a summary exactly when it is Completed; the summary is
\* created by the CompleteSession call that completes the session and is
\* never created again or replaced: CompleteSession on a Completed session
\* succeeds and returns the stored summary.
C24_OneSummary ==
    [][/\ (summary' # "none") <=> (status' = "completed")
       /\ summary' # summary =>
            /\ summary = "none"
            /\ result'.op = "complete"
            /\ status # "completed"
            /\ status' = "completed"
       /\ (result'.op = "complete" /\ status = "completed") =>
            /\ result'.outcome = "ok"
            /\ result'.content = summary
            /\ summary' = summary]_vars

C24_Witness ==
    /\ status = "completed"
    /\ result.op = "complete"
    /\ result.outcome = "ok"
    /\ result.llm_failed = {}
    /\ result.content = "summary_stub"
    /\ summary = "summary_stub"

ClassifierOrder ==
    <<"clarity", "tooling", "process", "rework", "delay", "safety">>

FirstKeyword(K) ==
    IF \A i \in 1..6 : ClassifierOrder[i] \notin K THEN {}
    ELSE {ClassifierOrder[i] : i \in {n \in 1..6 :
                                        /\ ClassifierOrder[n] \in K
                                        /\ \A j \in 1..(n - 1) :
                                              ClassifierOrder[j] \notin K}}

\* C25: an accepted turn is classified to at most one dimension, the first of
\* clarity, tooling, process, rework, delay, safety with a keyword in the
\* turn's text; that dimension becomes covered and no other coverage flag
\* changes, whatever other keywords occur; a turn answered with the fallback
\* reply is classified to none and changes no flag.
C25_FirstKeywordOnly ==
    [][(result'.op = "send" /\ result'.outcome = "ok") =>
         IF result'.content = "fallback_reply"
         THEN /\ result'.dimension = NoDim
              /\ dimensions_covered' = dimensions_covered
         ELSE /\ {result'.dimension} \ {NoDim} = FirstKeyword(result'.keywords)
              /\ dimensions_covered' =
                    dimensions_covered \cup FirstKeyword(result'.keywords)]_vars

C25_Witness ==
    /\ result.op = "send"
    /\ result.outcome = "ok"
    /\ result.keywords = {"tooling", "delay"}
    /\ result.dimension = "tooling"
    /\ dimensions_covered = {"tooling"}

\* C26: SendMessage is accepted only on a Started or InProgress session, and
\* an accepted call on a Started session leaves it promoted; on a session in
\* RatingConfirmation, Completed or Abandoned it is rejected and appends no
\* message.
C26_SendOnlyWhileInterviewing ==
    [][(result'.op = "send" /\ status # NoSession) =>
         IF status \in {"started", "in_progress"}
         THEN result'.outcome = "ok" => status' # "started"
         ELSE /\ result'.outcome = "invalid_state"
              /\ messages' = messages]_vars

\* C27: whatever the shape of the extraction output (entries without a
\* dimension or a score, a dimension listed twice, an unknown dimension, a
\* ratings field that is not a list), the hand-off turn succeeds, the session
\* enters RatingConfirmation and every dimension has exactly one rating.
C27_MalformedAbsorbed ==
    (result.op = "send" /\ result.extraction \in {"list", "nonlist"}) =>
        /\ result.outcome = "ok"
        /\ status = "rating_confirmation"
        /\ \A d \in Dimensions : Cardinality(RatingsOf(d)) = 1

\* C28: every stored rating has ai_inferred_score in [1, 5], a
\* user_adjusted_score, when present, in [1, 5], and final_score in [0, 100].
C28_ScoresInRange ==
    \A i \in DOMAIN extracted_ratings :
        /\ extracted_ratings[i].ai_inferred_score \in 1..5
        /\ extracted_ratings[i].user_adjusted_score \in {NoScore} \cup 1..5
        /\ extracted_ratings[i].final_score \in 0..100

\* C29: when the metrics hand-off of a CompleteSession call raises, the call
\* still succeeds and reports that no metrics were calculated, and the
\* Completed status, the completion timestamp and the summary are persisted.
C29_MetricsFailureAbsorbed ==
    [][(result'.op = "complete" /\ result'.metrics = "raised") =>
         /\ result'.outcome = "ok"
         /\ ~result'.metrics_calculated
         /\ status' = "completed"
         /\ completed_at'
         /\ summary' # "none"
         /\ summary' = result'.content]_vars

C29_Witness ==
    /\ result.op = "complete"
    /\ result.outcome = "ok"
    /\ result.metrics = "raised"
    /\ ~result.metrics_calculated
    /\ status = "completed"
    /\ completed_at
    /\ summary = "generated"

\* C30: StartSession succeeds only for an existing, active survey; on success
\* the session is Started with no dimension covered, no rating and exactly
\* one message, the assistant opening with sequence 0, whose content is the
\* canned opening when generation failed; for a missing or inactive survey
\* the call is rejected and neither a session nor a message is persisted.
C30_StartContract ==
    [][result'.op = "start" =>
         /\ result'.outcome = "ok" =>
              /\ result'.survey = "active"
              /\ status' = "started"
              /\ dimensions_covered' = {}
              /\ extracted_ratings' = <<>>
              /\ messages' = <<Message("assistant", 0)>>
              /\ "opening" \in result'.llm_failed =>
                     result'.content = "canned_opening"
         /\ result'.survey # "active" =>
              /\ result'.outcome = "rejected"
              /\ status' = NoSession
              /\ messages' = <<>>]_vars

C30_Witness ==
    /\ result.op = "start"
    /\ result.outcome = "ok"
    /\ result.survey = "active"
    /\ "opening" \in result.llm_failed
    /\ result.content = "canned_opening"
    /\ status = "started"
    /\ messages = <<Message("assistant", 0)>>

\* C31: a rating row, once created, is never deleted and keeps its dimension,
\* ai_inferred_score and ai_confidence; user_confirmed never goes back to
\* false; a row changes only in an accepted ConfirmRating call, and only the
\* row of the dimension that call names.
C31_RatingsFrame ==
    [][/\ Len(extracted_ratings') >= Len(extracted_ratings)
       /\ \A i \in DOMAIN extracted_ratings :
            /\ extracted_ratings'[i].dimension = extracted_ratings[i].dimension
            /\ extracted_ratings'[i].ai_inferred_score =
                  extracted_ratings[i].ai_inferred_score
            /\ extracted_ratings'[i].ai_confidence =
                  extracted_ratings[i].ai_confidence
            /\ extracted_ratings[i].user_confirmed =>
                  extracted_ratings'[i].user_confirmed
       /\ (\E i \in DOMAIN extracted_ratings :
              extracted_ratings'[i] # extracted_ratings[i]) =>
            /\ result'.op = "confirm"
            /\ result'.outcome = "ok"
            /\ \E dimension \in Dimensions, confirmed \in BOOLEAN :
                 \E adjusted_score \in AdjustedScoreInputs(dimension) :
                   /\ ConfirmCall(dimension, confirmed, adjusted_score,
                                  NoRequest)
                   /\ \A i \in DOMAIN extracted_ratings :
                        extracted_ratings'[i] # extracted_ratings[i] =>
                          extracted_ratings[i].dimension = dimension]_vars

C31_Witness ==
    /\ result.op = "confirm"
    /\ result.outcome = "ok"
    /\ \E i, j \in DOMAIN extracted_ratings :
         /\ extracted_ratings[i].user_confirmed
         /\ extracted_ratings[i].user_adjusted_score = 2
         /\ extracted_ratings[i].final_score = normalize_score(2)
         /\ extracted_ratings[i].ai_inferred_score = NeutralScore
         /\ ~extracted_ratings[j].user_confirmed

\* A call of SendMessage, ConfirmRating or CompleteSession that did not run
\* to its end.
Failed(res) ==
    /\ res.op \in {"send", "confirm", "complete"}
    /\ res.outcome \in {"crashed", "server_error"}

\* C32 (as stated): when SendMessage, ConfirmRating or CompleteSession fails
\* or stops at any step before its final commit, none of its changes is
\* persisted: the committed state is the one before the call.
C32_NothingVisible ==
    [][Failed(result') => UNCHANGED dbvars]_vars

\* C32 (amended): a call that fails or stops before the first commit it
\* reaches persists none of its changes; CompleteSession stopped after the
\* metrics calculator's commit and before its own has persisted all of
\* them together (Completed, the timestamp and the summary), never a part.
C32_AllOrNothing ==
    [][Failed(result') =>
         IF result'.outcome = "crashed" /\ result'.metrics = "calculated"
         THEN /\ result'.op = "complete"
              /\ status # "completed"
              /\ status' = "completed"
              /\ completed_at'
              /\ summary = "none"
              /\ summary' # "none"
              /\ UNCHANGED <<dimensions_covered, messages, extracted_ratings>>
         ELSE UNCHANGED dbvars]_vars

C32_Witness ==
    /\ result.op = "complete"
    /\ result.outcome = "crashed"
    /\ result.metrics = "calculated"
    /\ status = "completed"
    /\ completed_at
    /\ summary # "none"

\* C33: whenever no call is in progress, status and coverage agree: a
\* Started session has only the opening message and no covered dimension; a
\* Started or InProgress session has an uncovered dimension and no rating;
\* a session in RatingConfirmation has every dimension covered and a rating
\* for each.
C33_StatusAgreesWithCoverage ==
    ActiveRequests = {} =>
        /\ status = "started" =>
             /\ messages = <<Message("assistant", 0)>>
             /\ dimensions_covered = {}
        /\ status \in {"started", "in_progress"} =>
             /\ dimensions_covered # Dimensions
             /\ extracted_ratings = <<>>
        /\ status = "rating_confirmation" =>
             /\ dimensions_covered = Dimensions
             /\ \A d \in Dimensions : RatingsOf(d) # {}

\* The confirm calls the client has made since the hand-off: each but the one
\* that reports all confirmed appended one prompt to the hand-off's messages.
LoopCalls ==
    Len(messages) - (2 * Cardinality(Dimensions) + 2)
    + (IF result.op = "confirm" /\ result.all_confirmed THEN 1 ELSE 0)

\* C34: in RatingConfirmation a ConfirmRating on the reported, still
\* unconfirmed dimension lowers the number of unconfirmed ratings by exactly
\* one and no step raises it, so the calls made equal the ratings confirmed
\* and all_confirmed is reported after at most six calls; CompleteSession
\* then succeeds and the session reaches Completed.
C34_LoopTerminates ==
    /\ [][(ConfirmStep /\ result.pending \in UnconfirmedDims(extracted_ratings))
            => /\ result'.outcome = "ok"
               /\ Cardinality(Unconfirmed(extracted_ratings')) =
                     Cardinality(Unconfirmed(extracted_ratings)) - 1]_vars
    /\ [][Cardinality(Unconfirmed(extracted_ratings')) <=
            Cardinality(Unconfirmed(extracted_ratings))]_vars
    /\ [](result.op \in {"send", "confirm"} =>
            /\ LoopCalls = Cardinality(Dimensions)
                             - Cardinality(Unconfirmed(extracted_ratings))
            /\ LoopCalls <= Cardinality(Dimensions)
            /\ (result.op = "confirm" /\ result.all_confirmed) <=>
                  Unconfirmed(extracted_ratings) = {})
    /\ [][result'.op = "complete" =>
            result'.outcome = "ok" /\ status' = "completed"]_vars
    /\ <>(status = "completed")

C34_Witness ==
    /\ status = "completed"
    /\ result.op = "complete"
    /\ result.outcome = "ok"
    /\ Len(extracted_ratings) = Cardinality(Dimensions)
    /\ Unconfirmed(extracted_ratings) = {}
    /\ Len(messages) = 2 * Cardinality(Dimensions) + 2 + Cardinality(Dimensions) - 1
    /\ \E i \in DOMAIN extracted_ratings :
         extracted_ratings[i].user_adjusted_score = 2

====
